---- MODULE Spec2Model ----
(***************************************************************************)
(* Review triage core of ziggway: ReviewAnalyzer (pipeline/ai_enricher.py) *)
(* and its batch consumer (_perform_neural_analysis in app/main.py).       *)
(*                                                                         *)
(* Python values are modelled as follows.                                  *)
(*   - a text or a score is a record [type, s]: its Python type and the    *)
(*     string str(value);                                                  *)
(*   - a dict is a function from its keys to string values, the value      *)
(*     None being the string NoneStr;                                      *)
(*   - a decoded JSON value that is not an object is the one-field record  *)
(*     [py |-> <its literal>], and so is Python's None.                    *)
(* Strings are TLA+ strings; lower(), NFKD accent stripping, strip(),      *)
(* replace(), the regular expression and the substring tests are computed  *)
(* character by character.                                                 *)
(***************************************************************************)
EXTENDS Integers, Sequences, FiniteSets, TLC

-----------------------------------------------------------------------------
(* Python values *)

PyStr(s) == [type |-> "str", s |-> s]
PyInt(s) == [type |-> "int", s |-> s]
PyFloat(s) == [type |-> "float", s |-> s]
PyNone == [type |-> "NoneType", s |-> "None"]
PyNaN == PyFloat("nan")

\* bool(v) for a text or a score
Truthy(v) ==
    CASE v.type = "str" -> v.s # ""
      [] v.type = "NoneType" -> FALSE
      [] v.type = "int" -> v.s # "0"
      [] v.type = "float" -> v.s # "0.0"

\* float(v) for the literals the model uses: the truncated value int(float(v))
FloatLiterals ==
    [s \in {"0", "1", "2", "3", "4", "5", "6", "0.0", "1.0", "2.0", "3.0",
            "4.0", "5.0", "4.5", "2.9"} |->
        CASE s \in {"0", "0.0"} -> 0
          [] s \in {"1", "1.0"} -> 1
          [] s \in {"2", "2.0", "2.9"} -> 2
          [] s \in {"3", "3.0"} -> 3
          [] s \in {"4", "4.0", "4.5"} -> 4
          [] s \in {"5", "5.0"} -> 5
          [] s = "6" -> 6]

\* int(float(score)) does not raise
IntFloatOk(score) == score.type \in {"str", "int", "float"} /\ score.s \in DOMAIN FloatLiterals

IntFloat(score) == FloatLiterals[score.s]

NoneStr == "<None>"
NoneValue == [py |-> "None"]

IsDict(v) == "py" \notin DOMAIN v

\* bool(v) for a decoded JSON value
JsonTruthy(v) ==
    IF IsDict(v) THEN DOMAIN v # {}
    ELSE v.py \notin {"None", "0", "false", "\"\"", "[]"}

\* d.get(k)
Get(d, k) == IF k \in DOMAIN d THEN d[k] ELSE NoneStr

\* d[k] = v
Put(d, k, v) == [x \in (DOMAIN d) \cup {k} |-> IF x = k THEN v ELSE d[x]]

-----------------------------------------------------------------------------
(* str methods *)

UpperChars == "ABCDEFGHIJKLMNOPQRSTUVWXYZÁÂÃÀÇÉÊÍÓÔÕÚ"
LowerChars == "abcdefghijklmnopqrstuvwxyzáâãàçéêíóôõú"
AccentChars == "áâãàçéêíóôõú"
PlainChars == "aaaaceeiooou"
Whitespace == {" ", "\n", "\t", "\r"}

CharsOf(s) == {SubSeq(s, i, i) : i \in 1..Len(s)}

UpperSet == CharsOf(UpperChars)
AccentSet == CharsOf(AccentChars)

\* The character of to at the position c has in from; c itself when c is not in from
MapChar(c, from, to) ==
    IF c \in (IF from = UpperChars THEN UpperSet ELSE AccentSet)
    THEN LET i == CHOOSE i \in 1..Len(from) : SubSeq(from, i, i) = c
         IN SubSeq(to, i, i)
    ELSE c

\* The string with every character mapped, built by halves
RECURSIVE MapString(_, _, _)
MapString(s, from, to) ==
    IF s = "" THEN ""
    ELSE IF Len(s) = 1 THEN MapChar(s, from, to)
    ELSE LET half == Len(s) \div 2
         IN  MapString(SubSeq(s, 1, half), from, to)
             \o MapString(SubSeq(s, half + 1, Len(s)), from, to)

\* s.lower()
Lower(s) == MapString(s, UpperChars, LowerChars)

\* "".join(c for c in unicodedata.normalize("NFKD", s) if not unicodedata.combining(c))
StripAccents(s) == MapString(s, AccentChars, PlainChars)

\* needle in hay
Contains(hay, needle) ==
    \E i \in 0..(Len(hay) - Len(needle)) : SubSeq(hay, i + 1, i + Len(needle)) = needle

\* any(w in hay for w in words)
AnyIn(words, hay) == \E w \in words : Contains(hay, w)

MinOf(S) == CHOOSE i \in S : \A j \in S : i <= j
MaxOf(S) == CHOOSE i \in S : \A j \in S : i >= j

\* The positions of s where pat occurs
Occurrences(s, pat) ==
    {i \in 1..(Len(s) - Len(pat) + 1) : SubSeq(s, i, i + Len(pat) - 1) = pat}

\* s.strip()
Strip(s) ==
    LET solid == {i \in 1..Len(s) : SubSeq(s, i, i) \notin Whitespace}
    IN  IF solid = {} THEN "" ELSE SubSeq(s, MinOf(solid), MaxOf(solid))

\* s.replace(pat, ''): the occurrences of pat are removed from left to right
RECURSIVE Remove(_, _)
Remove(s, pat) ==
    IF Occurrences(s, pat) = {} THEN s
    ELSE LET at == MinOf(Occurrences(s, pat))
         IN  SubSeq(s, 1, at - 1) \o Remove(SubSeq(s, at + Len(pat), Len(s)), pat)

-----------------------------------------------------------------------------
(* ReviewAnalyzer._rule_based_analysis *)

neg_triggers ==
    [urgency_high |-> {"processo", "procon", "justiça", "advogado", "nunca mais",
                       "lixo", "golpe", "roubo"},
     logistics |-> {"atraso", "demorou", "nao chegou", "extraviado", "sumiu",
                    "correios", "entrega"},
     quality |-> {"quebrado", "defeito", "falha", "estragado", "pior", "horrivel",
                  "falsificado"},
     support |-> {"grosso", "mal educado", "ignora", "descaso", "atendimento", "sac"}]

general_bad == {"ruim", "pessimo", "terrivel", "odiei", "triste", "insatisfeito"}

positives == {"bom", "otimo", "excelente", "amei", "gostei", "recomendo", "top",
              "show", "perfeito"}

Classification(sentiment, category, urgency, suggested_action) ==
    [sentiment |-> sentiment, category |-> category, urgency |-> urgency,
     suggested_action |-> suggested_action]

\* Mutant: the critical urgency triggers are tested before the "nao recomendo" phrase
rule_based_analysis_urgency_first(text) ==
    LET text_lower == Lower(text)
        normalized == StripAccents(text_lower)
    IN  IF AnyIn(neg_triggers.urgency_high, normalized)
        THEN Classification("Negativo", "Outro", "Alta", "Reter Cliente Imediatamente")
        ELSE IF Contains(normalized, "nao recomendo") \/ Contains(normalized, "nao indico")
        THEN Classification("Negativo", "Qualidade", "Média", "Monitorar")
        ELSE IF AnyIn(neg_triggers.logistics, normalized)
        THEN Classification("Negativo", "Logística", "Alta", "Verificar Rastreio")
        ELSE IF AnyIn(general_bad, normalized)
        THEN Classification("Negativo", "Qualidade", "Média", "Oferecer Cupom/Troca")
        ELSE IF AnyIn(positives, normalized)
        THEN Classification("Positivo", "Qualidade", "Baixa", "Agradecer Review")
        ELSE Classification("Neutro", "Outro", "Baixa", "Monitorar")

\* text is a str here: the caller decides what text.lower() does otherwise
rule_based_analysis(text) ==
    LET text_lower == Lower(text)
        normalized == StripAccents(text_lower)
    IN  IF Contains(normalized, "nao recomendo") \/ Contains(normalized, "nao indico")
        THEN Classification("Negativo", "Qualidade", "Média", "Monitorar")
        ELSE IF AnyIn(neg_triggers.urgency_high, normalized)
        THEN Classification("Negativo", "Outro", "Alta", "Reter Cliente Imediatamente")
        ELSE IF AnyIn(neg_triggers.logistics, normalized)
        THEN Classification("Negativo", "Logística", "Alta", "Verificar Rastreio")
        ELSE IF AnyIn(general_bad, normalized)
        THEN Classification("Negativo", "Qualidade", "Média", "Oferecer Cupom/Troca")
        ELSE IF AnyIn(positives, normalized)
        THEN Classification("Positivo", "Qualidade", "Baixa", "Agradecer Review")
        ELSE Classification("Neutro", "Outro", "Baixa", "Monitorar")

-----------------------------------------------------------------------------
(* ReviewAnalyzer._apply_sanity_checks *)

triggers_alta == {"atraso", "não recebi", "extraviado", "quebrado", "defeito", "procon",
                  "justiça", "triste", "decepcionado", "chateado", "nunca mais",
                  "indignado", "vergonha", "absurdo", "lixo"}

triggers_positive == {"parabéns", "excelente", "perfeito", "amei", "recomendo", "ótimo",
                      "maravilhoso"}

AppendReasoning(result, note) == Put(result, "reasoning", result["reasoning"] \o note)

\* Mutant: strict comparisons, the middle score 3 leaves a Neutral draft as it is
NeutralSentimentLogicStrict(result, score_int) ==
    IF Get(result, "sentiment") = "Neutro"
    THEN IF score_int < 3
         THEN AppendReasoning(Put(Put(result, "sentiment", "Negativo"),
                                  "category", "Qualidade"),
                              " [AUTO-CORRECT: Integrated Score Adjustment]")
         ELSE IF score_int > 3
         THEN AppendReasoning(Put(result, "sentiment", "Positivo"),
                              " [AUTO-CORRECT: Integrated Score Adjustment]")
         ELSE result
    ELSE result

\* 1. Neutral Sentiment Logic
NeutralSentimentLogic(result, score_int) ==
    IF Get(result, "sentiment") = "Neutro"
    THEN IF score_int <= 3
         THEN AppendReasoning(Put(Put(result, "sentiment", "Negativo"),
                                  "category", "Qualidade"),
                              " [AUTO-CORRECT: Integrated Score Adjustment]")
         ELSE IF score_int >= 4
         THEN AppendReasoning(Put(result, "sentiment", "Positivo"),
                              " [AUTO-CORRECT: Integrated Score Adjustment]")
         ELSE result
    ELSE result

\* Mutant: the sentiment is forced, and the note written, whether or not the
\* sentiment already matches the score
ScorePolarityEnforcementAlways(result, score_int) ==
    IF score_int <= 2
    THEN AppendReasoning(Put(result, "sentiment", "Negativo"), " [FORCE: Critical Score]")
    ELSE IF score_int = 5
    THEN AppendReasoning(Put(result, "sentiment", "Positivo"), " [FORCE: Max Score]")
    ELSE result

\* Mutant: forcing Negative also resets the category, as rule 1 does
ScorePolarityEnforcementWithCategory(result, score_int) ==
    IF score_int <= 2 /\ Get(result, "sentiment") # "Negativo"
    THEN AppendReasoning(Put(Put(result, "sentiment", "Negativo"), "category", "Qualidade"),
                         " [FORCE: Critical Score]")
    ELSE IF score_int = 5 /\ Get(result, "sentiment") # "Positivo"
    THEN AppendReasoning(Put(result, "sentiment", "Positivo"), " [FORCE: Max Score]")
    ELSE result

\* 2. Score Polarity Enforcement
ScorePolarityEnforcement(result, score_int) ==
    IF score_int <= 2 /\ Get(result, "sentiment") # "Negativo"
    THEN AppendReasoning(Put(result, "sentiment", "Negativo"), " [FORCE: Critical Score]")
    ELSE IF score_int = 5 /\ Get(result, "sentiment") # "Positivo"
    THEN AppendReasoning(Put(result, "sentiment", "Positivo"), " [FORCE: Max Score]")
    ELSE result

\* Mutant: every Negative result is set to Média, whatever its urgency was
UrgencyUpgradeAlwaysMedium(result) ==
    IF Get(result, "sentiment") = "Negativo"
    THEN Put(result, "urgency", "Média")
    ELSE result

\* Mutant: the automatic upgrade from Baixa is missing
UrgencyUpgradeNever(result) == result

\* 3. Urgency Matrix Logic, up to the first use of text_raw
UrgencyUpgrade(result) ==
    IF Get(result, "sentiment") = "Negativo" /\ Get(result, "urgency") = "Baixa"
    THEN Put(result, "urgency", "Média")
    ELSE result

\* 3. Urgency Matrix Logic, the trigger words (text_raw is a str)
UrgencyTriggers(result, text_raw) ==
    IF Get(result, "sentiment") = "Negativo" /\ AnyIn(triggers_alta, Lower(text_raw))
    THEN Put(Put(result, "urgency", "Alta"), "suggested_action",
             IF Contains(Lower(text_raw), "triste") \/ Contains(Lower(text_raw), "decepcionado")
             THEN "Acolhimento + Solução"
             ELSE "Resolução Imediata / Estorno")
    ELSE result

\* Mutant: the praise terms do not override a Negative sentiment
PositiveLexiconOverrideUnlessNegative(result, score_int, text_raw) ==
    IF AnyIn(triggers_positive, Lower(text_raw)) /\ score_int >= 4
       /\ Get(result, "sentiment") # "Negativo"
    THEN Put(Put(Put(result, "sentiment", "Positivo"),
                 "category",
                 IF Get(result, "category") = "Unknown" THEN "Outro"
                 ELSE Get(result, "category")),
             "suggested_action", "Agradecer e Fidelizar")
    ELSE result

\* Mutant: the praise terms override the sentiment whatever the score
PositiveLexiconOverrideAnyScore(result, score_int, text_raw) ==
    IF AnyIn(triggers_positive, Lower(text_raw))
    THEN Put(Put(Put(result, "sentiment", "Positivo"),
                 "category",
                 IF Get(result, "category") = "Unknown" THEN "Outro"
                 ELSE Get(result, "category")),
             "suggested_action", "Agradecer e Fidelizar")
    ELSE result

\* 4. Positive Lexicon Override (text_raw is a str)
PositiveLexiconOverride(result, score_int, text_raw) ==
    IF AnyIn(triggers_positive, Lower(text_raw)) /\ score_int >= 4
    THEN Put(Put(Put(result, "sentiment", "Positivo"),
                 "category",
                 IF Get(result, "category") = "Unknown" THEN "Outro"
                 ELSE Get(result, "category")),
             "suggested_action", "Agradecer e Fidelizar")
    ELSE result

\* Lines 144-195, the try block. An exception inside it is swallowed and the dict is
\* returned with the edits made so far: int(float(score)) on a malformed score,
\* the "reasoning" test and assignment on a value that is no dict, text_raw.lower()
\* on a text that is no str.
SanityPass(result, score, text_raw) ==
    IF ~IntFloatOk(score) THEN result
    ELSE IF ~IsDict(result) THEN result
    ELSE LET score_int == IntFloat(score)
             r0 == IF "reasoning" \notin DOMAIN result
                   THEN Put(result, "reasoning", "") ELSE result
             r1 == NeutralSentimentLogic(r0, score_int)
             r2 == ScorePolarityEnforcement(r1, score_int)
             r3 == UrgencyUpgrade(r2)
         IN  IF text_raw.type # "str" THEN r3
             ELSE PositiveLexiconOverride(UrgencyTriggers(r3, text_raw.s),
                                          score_int, text_raw.s)

\* Mutant: a missing score is read as the middle score 3
apply_sanity_checks_default_score(result, score, text_raw) ==
    SanityPass(result, IF Truthy(score) THEN score ELSE PyInt("3"), text_raw)

\* The whole method: the value of the dict when the method returns. The method
\* assigns to the items of the dict it was given and returns that same object.
apply_sanity_checks(result, score, text_raw) ==
    IF ~Truthy(score) THEN result
    ELSE SanityPass(result, score, text_raw)

-----------------------------------------------------------------------------
(* The remote call and the decoding of its reply (analyze_review, the try block) *)

\* re.search(r'\{.*\}', s, re.DOTALL): greedy, from the first "{" to the last "}"
\* that follows it
RegexMatches(s) ==
    /\ Occurrences(s, "{") # {}
    /\ \E j \in Occurrences(s, "}") : j > MinOf(Occurrences(s, "{"))

RegexGroup(s) == SubSeq(s, MinOf(Occurrences(s, "{")), MaxOf(Occurrences(s, "}")))

PayloadNegLog == "{\"sentiment\": \"Negativo\", \"category\": \"Logística\", \"urgency\": \"Alta\", \"suggested_action\": \"Verificar Rastreio\"}"
PayloadNegLow == "{\"sentiment\": \"Negativo\", \"category\": \"Atendimento\", \"urgency\": \"Baixa\", \"suggested_action\": \"Monitorar\"}"
PayloadPos == "{\"sentiment\": \"Positivo\", \"category\": \"Outro\", \"urgency\": \"Baixa\", \"suggested_action\": \"Fidelizar\"}"
PayloadNeutral == "{\"sentiment\": \"Neutro\", \"category\": \"Preço\", \"urgency\": \"Baixa\", \"suggested_action\": \"Monitorar\"}"
PayloadMissing == "{\"sentiment\": \"Positivo\"}"
PayloadBadEnum == "{\"sentiment\": \"Misto\", \"category\": \"Outro\", \"urgency\": \"Baixa\", \"suggested_action\": \"Monitorar\"}"

\* The Markdown code fence. A TLA+ string cannot hold the backquote character, so
\* the apostrophe stands for it in every reply of the model.
Fence == "'''"
FenceJson == "'''json"

\* json.loads on the documents the bounded replies can produce; every other string
\* these replies lead to is not a JSON document and makes json.loads raise
JsonDocuments ==
    (PayloadNegLog :> Classification("Negativo", "Logística", "Alta", "Verificar Rastreio"))
    @@ (PayloadNegLow :> Classification("Negativo", "Atendimento", "Baixa", "Monitorar"))
    @@ (PayloadPos :> Classification("Positivo", "Outro", "Baixa", "Fidelizar"))
    @@ (PayloadNeutral :> Classification("Neutro", "Preço", "Baixa", "Monitorar"))
    @@ (PayloadMissing :> [sentiment |-> "Positivo"])
    @@ (PayloadBadEnum :> Classification("Misto", "Outro", "Baixa", "Monitorar"))
    @@ ("{}" :> << >>)
    @@ ("42" :> [py |-> "42"])
    @@ ("null" :> [py |-> "None"])
    @@ ("[1]" :> [py |-> "[1]"])

JsonLoadsOk(s) == Strip(s) \in DOMAIN JsonDocuments

JsonLoads(s) == JsonDocuments[Strip(s)]

\* Lines 113-123: the decoded reply, or NoneValue when a step raised (result stays None)
ParseReply(content) ==
    IF content.type # "str" THEN NoneValue
    ELSE LET stripped == Remove(Remove(Strip(content.s), FenceJson), Fence)
             clean_text == IF RegexMatches(stripped) THEN RegexGroup(stripped) ELSE stripped
         IN  IF JsonLoadsOk(clean_text) THEN JsonLoads(clean_text) ELSE NoneValue

\* Lines 48-127: the variable result after the try block. gw is what the remote service does
\* for this call: kind "reply" with the message content, or an exception raised by
\* client.chat.completions.create (connection error, timeout, error status).
GatewayResult(gw) ==
    IF gw.kind # "reply" THEN NoneValue ELSE ParseReply(gw.content)

-----------------------------------------------------------------------------
(* ReviewAnalyzer.analyze_review *)

MinTextLen == 2

DefaultClassification ==
    [sentiment |-> "Neutral", category |-> "Unknown", urgency |-> "Baixa",
     suggested_action |-> "None"]

\* What a call did: the value returned, or raised = TRUE when an exception left the
\* call; gateway_called and rules_called tell whether the remote service and
\* _rule_based_analysis were invoked.
Outcome(raised, value, gateway_called, rules_called) ==
    [raised |-> raised, value |-> value, gateway_called |-> gateway_called,
     rules_called |-> rules_called]

\* Mutant: only the empty text is short-circuited
TextTooShortEmptyOnly(text) == ~Truthy(text)

\* Line 36: not text or len(str(text)) < 2
TextTooShort(text) == ~Truthy(text) \/ Len(text.s) < MinTextLen

\* Mutant: the rule engine is the draft in mock mode only, a failed remote call
\* leaves result at None
analyze_review_no_fallback(mock, text, score, gw) ==
    IF TextTooShort(text)
    THEN Outcome(FALSE, DefaultClassification, FALSE, FALSE)
    ELSE IF mock /\ text.type # "str"
    THEN Outcome(TRUE, NoneValue, FALSE, TRUE)
    ELSE Outcome(FALSE,
                 apply_sanity_checks(
                     IF mock THEN rule_based_analysis(text.s) ELSE GatewayResult(gw),
                     score, text),
                 ~mock, mock)

analyze_review(mock, text, score, gw) ==
    IF TextTooShort(text)
    THEN Outcome(FALSE, DefaultClassification, FALSE, FALSE)
    ELSE LET remote == IF mock THEN NoneValue ELSE GatewayResult(gw)
             fallback == ~JsonTruthy(remote)
         IN  IF fallback /\ text.type # "str"
             THEN \* _rule_based_analysis: text.lower() raises AttributeError
                  Outcome(TRUE, NoneValue, ~mock, TRUE)
             ELSE Outcome(FALSE,
                          apply_sanity_checks(
                              IF fallback THEN rule_based_analysis(text.s) ELSE remote,
                              score, text),
                          ~mock, fallback)

-----------------------------------------------------------------------------
(* Inputs *)

Texts ==
    {PyStr(""), PyStr("x"), PyStr(" "), PyStr("ok"), PyStr("Normal."),
     PyStr("Gostei, mas veio quebrado."), PyStr("Não recomendo a ninguém."),
     PyStr("Produto excelente, recomendo!"), PyStr("Estou muito triste com essa compra."),
     PyStr("Meu pedido está atrasado há 10 dias!"),
     PyStr("Não recomendo, vou ao Procon!"),
     PyStr("Entrega rápida, produto muito bom."),
     PyStr("Nunca mais compro, a entrega demorou."),
     PyStr("Produto ruim, mas gostei da cor."),
     PyStr("Estou chateado com a loja."),
     PyNone, PyNaN, PyInt("0"), PyInt("7"), PyInt("42")}

Scores ==
    {PyNone, PyInt("0"), PyInt("1"), PyInt("2"), PyInt("3"), PyInt("4"), PyInt("5"),
     PyFloat("5.0"), PyNaN, PyStr("abc")}

ReplyContents ==
    {PyNone, PyStr(""), PyStr(PayloadNegLog), PyStr(PayloadNegLow),
     PyStr(FenceJson \o "\n" \o PayloadPos \o "\n" \o Fence),
     PyStr("Claro! " \o PayloadNeutral \o " Espero ter ajudado."),
     PyStr(PayloadPos \o " (formato {json})"),
     PyStr(PayloadMissing), PyStr(PayloadBadEnum),
     PyStr("{}"), PyStr("42"), PyStr("null"), PyStr("[1]"),
     PyStr("Desculpe, não consigo classificar.")}

\* What client.chat.completions.create raises instead of returning
GatewayErrors == {"connection_error", "timeout", "status_error"}

GatewayOutcomes ==
    {[kind |-> k, content |-> PyNone] : k \in GatewayErrors}
    \cup {[kind |-> "reply", content |-> c] : c \in ReplyContents}

\* In mock mode there is no client and no remote call
NoGateway == [kind |-> "none", content |-> PyNone]

Gateways(mock, outcomes) == IF mock THEN {NoGateway} ELSE outcomes

\* The drafts _apply_sanity_checks is given: what _rule_based_analysis returns and
\* the dicts json.loads returns, without and with an audit trace
RuleDrafts == {rule_based_analysis(t.s) : t \in {x \in Texts : x.type = "str"}}

RemoteDrafts ==
    {JsonDocuments[k] : k \in {x \in DOMAIN JsonDocuments :
                                  IsDict(JsonDocuments[x]) /\ JsonTruthy(JsonDocuments[x])}}
    \cup {Classification("Positivo", "Unknown", "Baixa", "Fidelizar"),
          Classification("Negativo", "Unknown", "Média", "Monitorar")}

Drafts ==
    RuleDrafts \cup RemoteDrafts
    \cup {Put(Classification("Neutro", "Outro", "Baixa", "Monitorar"), "reasoning", ""),
          Put(Classification("Positivo", "Qualidade", "Baixa", "Agradecer Review"),
              "reasoning", "modelo: elogio")}

ReviewItem(text, score) == [text |-> text, score |-> score]

BatchItems ==
    {ReviewItem(PyStr("Gostei, mas veio quebrado."), PyInt("1")),
     ReviewItem(PyStr("x"), PyInt("5")),
     ReviewItem(PyNaN, PyInt("3"))}

BatchGatewayOutcomes ==
    {[kind |-> "timeout", content |-> PyNone],
     [kind |-> "reply", content |-> PyStr(PayloadPos)]}

MaxItems == 3
MaxWorkers == 2

Batches == UNION {[1..n -> BatchItems] : n \in 0..MaxItems}

\* analyze_review on every call a pool thread can make, computed once
WorkerCalls ==
    {<<mock, item, gw>> : mock \in BOOLEAN, item \in BatchItems,
                          gw \in BatchGatewayOutcomes \cup {NoGateway}}

WorkerOutcomes ==
    {<<c, analyze_review(c[1], c[2].text, c[2].score, c[3])>> : c \in WorkerCalls}

WorkerOutcome(mock, item, gw) ==
    (CHOOSE p \in WorkerOutcomes : p[1] = <<mock, item, gw>>)[2]

-----------------------------------------------------------------------------
(* State *)

VARIABLES
    mock_mode,      \* ReviewAnalyzer.mock_mode
    call,           \* the arguments of the direct analyze_review call, NoCall before it
    ret,            \* what that call did
    reviews_data,   \* analyze_batch_with_progress: the list of review items
    max_workers,    \* ... and the size of its thread pool
    gen,            \* where the generator is
    status,         \* per item: "unsubmitted", "queued", "running" or "done"
    futures,        \* per item: the Outcome held by its future, NoOutcome before
    out,            \* the results handed to the consumer, in the order it got them
    consumer,       \* "draining", or "stopped" once the consumer gave up
    unstarted_at_stop,  \* the items no worker had taken when the consumer stopped
    overtaken,      \* some item finished while an earlier item of the list had not
    concurrent,     \* a call of analyze_batch_concurrent: its arguments and what it
                    \* did; NoCall before it
    sanity          \* a direct _apply_sanity_checks call: its arguments, the value it
                    \* returned and the argument dict after the call; NoCall before it

vars == <<mock_mode, call, ret, reviews_data, max_workers, gen, status, futures, out,
          consumer, unstarted_at_stop, overtaken, concurrent, sanity>>

batch_vars == <<reviews_data, max_workers, gen, status, futures, out, consumer,
                unstarted_at_stop, overtaken>>

NoCall == [kind |-> "none"]
NoOutcome == [kind |-> "none"]

N == Len(reviews_data)
Items == 1..N
Running == {i \in Items : status[i] = "running"}
Queued == {i \in Items : status[i] = "queued"}

\* After ReviewAnalyzer.__init__: the mode is fixed by the environment
Init ==
    /\ mock_mode \in BOOLEAN
    /\ call = NoCall
    /\ ret = NoOutcome
    /\ reviews_data = << >>
    /\ max_workers = 0
    /\ gen = "none"
    /\ status = << >>
    /\ futures = << >>
    /\ out = << >>
    /\ consumer = "draining"
    /\ unstarted_at_stop = {}
    /\ overtaken = FALSE
    /\ sanity = NoCall
    /\ concurrent = NoCall

-----------------------------------------------------------------------------
(* A direct call of analyze_review *)

AnalyzeReview ==
    /\ call = NoCall
    /\ gen = "none"
    /\ sanity = NoCall
    /\ concurrent = NoCall
    /\ \E text \in Texts, score \in Scores, gw \in Gateways(mock_mode, GatewayOutcomes) :
          /\ call' = [text |-> text, score |-> score, gw |-> gw]
          /\ ret' = analyze_review(mock_mode, text, score, gw)
    /\ UNCHANGED <<concurrent, sanity, mock_mode, batch_vars>>

-----------------------------------------------------------------------------
(* A direct call of _apply_sanity_checks *)

\* The method edits the dict it is given (result[...] = ...) and returns it: the
\* value returned and the argument after the call are one object
ApplySanityChecks ==
    /\ call = NoCall
    /\ gen = "none"
    /\ sanity = NoCall
    /\ concurrent = NoCall
    /\ \E result \in Drafts, score \in Scores, text_raw \in Texts :
          sanity' = [result |-> result, score |-> score, text_raw |-> text_raw,
                     returned |-> apply_sanity_checks(result, score, text_raw),
                     result_after |-> apply_sanity_checks(result, score, text_raw)]
    /\ UNCHANGED <<concurrent, mock_mode, call, ret, batch_vars>>

-----------------------------------------------------------------------------
(* analyze_batch_with_progress and the loop of _perform_neural_analysis *)

\* The call: it only creates the generator
AnalyzeBatchWithProgress ==
    /\ call = NoCall
    /\ gen = "none"
    /\ sanity = NoCall
    /\ concurrent = NoCall
    /\ \E data \in Batches, workers \in 1..MaxWorkers :
          /\ reviews_data' = data
          /\ max_workers' = workers
          /\ status' = [i \in 1..Len(data) |-> "unsubmitted"]
          /\ futures' = [i \in 1..Len(data) |-> NoOutcome]
    /\ gen' = "created"
    /\ UNCHANGED <<concurrent, sanity, mock_mode, call, ret, out, consumer, unstarted_at_stop, overtaken>>

\* next() on the generator: the first one enters the with block, a later one
\* resumes the loop after the yield
ConsumerNext ==
    /\ consumer = "draining"
    /\ gen \in {"created", "suspended"}
    /\ gen' = IF gen = "created" THEN "submitting" ELSE "waiting"
    /\ UNCHANGED <<concurrent, sanity, mock_mode, call, ret, reviews_data, max_workers, status, futures, out,
                   consumer, unstarted_at_stop, overtaken>>

\* executor.submit for the next item of the list comprehension
Submit ==
    /\ gen = "submitting"
    /\ \E i \in Items :
          /\ status[i] = "unsubmitted"
          /\ \A j \in 1..(i - 1) : status[j] # "unsubmitted"
          /\ status' = [status EXCEPT ![i] = "queued"]
    /\ UNCHANGED <<concurrent, sanity, mock_mode, call, ret, reviews_data, max_workers, gen, futures, out,
                   consumer, unstarted_at_stop, overtaken>>

\* The list of futures is complete: the for loop starts
SubmitDone ==
    /\ gen = "submitting"
    /\ \A i \in Items : status[i] # "unsubmitted"
    /\ gen' = "waiting"
    /\ UNCHANGED <<concurrent, sanity, mock_mode, call, ret, reviews_data, max_workers, status, futures, out,
                   consumer, unstarted_at_stop, overtaken>>

\* Mutant: a thread for every queued item, whatever max_workers
WorkerStartUnbounded ==
    /\ \E i \in Queued :
          /\ \A j \in Queued : i <= j
          /\ status' = [status EXCEPT ![i] = "running"]
    /\ UNCHANGED <<concurrent, sanity, mock_mode, call, ret, reviews_data, max_workers, gen, futures, out,
                   consumer, unstarted_at_stop, overtaken>>

\* A pool thread takes the oldest work item of the queue; the pool has at most
\* max_workers threads
WorkerStart ==
    /\ Cardinality(Running) < max_workers
    /\ \E i \in Queued :
          /\ \A j \in Queued : i <= j
          /\ status' = [status EXCEPT ![i] = "running"]
    /\ UNCHANGED <<concurrent, sanity, mock_mode, call, ret, reviews_data, max_workers, gen, futures, out,
                   consumer, unstarted_at_stop, overtaken>>

\* The thread's analyze_review call ends and its outcome is stored in the future
WorkerFinish ==
    /\ \E i \in Running, gw \in Gateways(mock_mode, BatchGatewayOutcomes) :
          /\ status' = [status EXCEPT ![i] = "done"]
          /\ futures' = [futures EXCEPT ![i] =
                            WorkerOutcome(mock_mode, reviews_data[i], gw)]
          /\ overtaken' = (overtaken \/ \E j \in 1..(i - 1) : status[j] # "done")
    /\ UNCHANGED <<concurrent, sanity, mock_mode, call, ret, reviews_data, max_workers, gen, out, consumer,
                   unstarted_at_stop>>

\* Mutant: as_completed, any finished future is yielded
YieldAsCompleted ==
    /\ gen = "waiting"
    /\ \E i \in Items :
          /\ status[i] = "done"
          /\ ~futures[i].raised
          /\ \A k \in 1..Len(out) : out[k].item # i
          /\ out' = Append(out, [item |-> i, value |-> futures[i].value])
    /\ gen' = "suspended"
    /\ UNCHANGED <<concurrent, sanity, mock_mode, call, ret, reviews_data, max_workers, status, futures,
                   consumer, unstarted_at_stop, overtaken>>

\* future.result() of the next future in list order returns: yield it
Yield ==
    /\ gen = "waiting"
    /\ Len(out) < N
    /\ LET i == Len(out) + 1
       IN  /\ status[i] = "done"
           /\ ~futures[i].raised
           /\ out' = Append(out, [item |-> i, value |-> futures[i].value])
    /\ gen' = "suspended"
    /\ UNCHANGED <<concurrent, sanity, mock_mode, call, ret, reviews_data, max_workers, status, futures,
                   consumer, unstarted_at_stop, overtaken>>

\* Mutant: the exception of the item's call is caught in the loop, an empty result
\* takes the item's place and the loop goes on
RaiseSkipped ==
    /\ gen = "waiting"
    /\ Len(out) < N
    /\ LET i == Len(out) + 1
       IN  /\ status[i] = "done"
           /\ futures[i].raised
           /\ out' = Append(out, [item |-> i, value |-> NoneValue])
    /\ gen' = "suspended"
    /\ UNCHANGED <<concurrent, sanity, mock_mode, call, ret, reviews_data, max_workers, status, futures,
                   consumer, unstarted_at_stop, overtaken>>

\* future.result() re-raises the exception of the item's call: it leaves the loop
\* and the with block, whose exit is executor.shutdown(wait=True)
Raise ==
    /\ gen = "waiting"
    /\ Len(out) < N
    /\ LET i == Len(out) + 1
       IN  status[i] = "done" /\ futures[i].raised
    /\ gen' = "aborting"
    /\ UNCHANGED <<concurrent, sanity, mock_mode, call, ret, reviews_data, max_workers, status, futures, out,
                   consumer, unstarted_at_stop, overtaken>>

\* The loop is over: the with block exits and the generator is exhausted
Exhaust ==
    /\ gen = "waiting"
    /\ Len(out) = N
    /\ gen' = "exhausted"
    /\ UNCHANGED <<concurrent, sanity, mock_mode, call, ret, reviews_data, max_workers, status, futures, out,
                   consumer, unstarted_at_stop, overtaken>>

\* The consumer stops iterating and keeps the suspended generator
Abandon ==
    /\ consumer = "draining"
    /\ gen = "suspended"
    /\ consumer' = "stopped"
    /\ unstarted_at_stop' = {i \in Items : status[i] \in {"unsubmitted", "queued"}}
    /\ UNCHANGED <<concurrent, sanity, mock_mode, call, ret, reviews_data, max_workers, gen, status, futures,
                   out, overtaken>>

\* The consumer stops iterating and the generator is closed (break, garbage
\* collection): GeneratorExit leaves the with block through executor.shutdown(wait=True)
Close ==
    /\ consumer = "draining"
    /\ gen = "suspended"
    /\ consumer' = "stopped"
    /\ gen' = "closing"
    /\ unstarted_at_stop' = {i \in Items : status[i] \in {"unsubmitted", "queued"}}
    /\ UNCHANGED <<concurrent, sanity, mock_mode, call, ret, reviews_data, max_workers, status, futures, out,
                   overtaken>>

\* shutdown(wait=True) returns once the pool threads have emptied the queue
ShutdownDone ==
    /\ gen \in {"closing", "aborting"}
    /\ \A i \in Items : status[i] = "done"
    /\ gen' = IF gen = "closing" THEN "closed" ELSE "failed"
    /\ UNCHANGED <<concurrent, sanity, mock_mode, call, ret, reviews_data, max_workers, status, futures, out,
                   consumer, unstarted_at_stop, overtaken>>

-----------------------------------------------------------------------------
(* ReviewAnalyzer.analyze_batch_concurrent *)

\* Line 245: the class attribute is bound to None, not to a function
analyze_batch_concurrent == NoneValue

\* analyzer.analyze_batch_concurrent(items, max_workers=k): calling an attribute
\* that is None raises TypeError before anything is classified
AnalyzeBatchConcurrent ==
    /\ call = NoCall
    /\ gen = "none"
    /\ sanity = NoCall
    /\ concurrent = NoCall
    /\ \E data \in Batches, workers \in 1..MaxWorkers :
          concurrent' = [reviews_data |-> data, max_workers |-> workers,
                         raised |-> (analyze_batch_concurrent = NoneValue),
                         results |-> << >>]
    /\ UNCHANGED <<sanity, mock_mode, call, ret, batch_vars>>

Next ==
    \/ AnalyzeReview
    \/ ApplySanityChecks
    \/ AnalyzeBatchConcurrent
    \/ AnalyzeBatchWithProgress
    \/ ConsumerNext
    \/ Submit
    \/ SubmitDone
    \/ WorkerStart
    \/ WorkerFinish
    \/ Yield
    \/ Raise
    \/ Exhaust
    \/ Abandon
    \/ Close
    \/ ShutdownDone

Spec == Init /\ [][Next]_vars

-----------------------------------------------------------------------------
(* Properties *)

Called == ret # NoOutcome
Returned == Called /\ ~ret.raised

\* C1: once the batch generator has been drained to its end, the consumer holds
\* exactly N results and the i-th one is the outcome of the i-th review item.
C1_AllResultsInOrder ==
    gen \in {"exhausted", "failed"} =>
        /\ Len(out) = N
        /\ \A i \in Items : out[i] = [item |-> i, value |-> futures[i].value]

\* C2: results reach the consumer in list order: the k-th result handed over is
\* that of item k, which is finished; a finished result that is still withheld
\* is not left behind when the generator completes.
C2_OrderedDelivery ==
    /\ \A k \in 1..Len(out) :
          /\ out[k].item = k
          /\ status[k] = "done"
          /\ out[k].value = futures[k].value
    /\ \A i \in Items :
          (status[i] = "done" /\ ~futures[i].raised /\ i > Len(out)) => gen # "exhausted"

\* A later item finished first, and every result was still delivered in order
C2_Witness ==
    /\ overtaken
    /\ gen = "exhausted"
    /\ N >= 2

\* C3: after the consumer stopped draining, no item that no worker had taken at
\* that moment is started.
C3_NoStartAfterStop ==
    consumer = "stopped" =>
        \A i \in unstarted_at_stop : status[i] \in {"unsubmitted", "queued"}

\* C4: at most max_workers items are being classified at any time, and the step
\* that ends an item's classification writes that item's slot of the futures
\* only: no other item's status or future, nor the analyzer's mode, changes.
C4_BoundedWorkers ==
    /\ [](Cardinality(Running) <= max_workers)
    /\ [][\A i \in Items :
            (status[i] = "running" /\ status'[i] = "done") =>
                /\ \A j \in Items \ {i} : status'[j] = status[j] /\ futures'[j] = futures[j]
                /\ UNCHANGED <<concurrent, sanity, mock_mode, reviews_data, max_workers, out, gen>>]_vars

\* The pool is saturated while items wait in the queue, and one of them ends
C4_Witness ==
    /\ Cardinality(Running) = max_workers
    /\ Queued # {}
    /\ \E i \in Items : status[i] = "done"

\* C5: a call of analyze_review never ends with an exception.
C5_NeverRaises == Called => ~ret.raised

Sentiments == {"Positivo", "Negativo", "Neutro", "Neutral"}
Categories == {"Logística", "Qualidade", "Atendimento", "Preço", "Outro", "Unknown"}
Urgencies == {"Alta", "Média", "Baixa"}
RequiredFields == {"sentiment", "category", "urgency", "suggested_action"}

ValidClassification(v) ==
    /\ IsDict(v)
    /\ RequiredFields \subseteq DOMAIN v
    /\ v["sentiment"] \in Sentiments
    /\ v["category"] \in Categories
    /\ v["urgency"] \in Urgencies

\* C6: every value analyze_review returns carries the four fields, with
\* sentiment, category and urgency inside their enumerations.
C6_AlwaysValid == Returned => ValidClassification(ret.value)

\* The four ways the remote call gives no usable classification: the request
\* fails, it times out or is answered with an error status, the reply does not
\* decode, the decoded reply lacks a required field
GatewayFailure(gw) ==
    \/ gw.kind \in GatewayErrors
    \/ /\ gw.kind = "reply"
       /\ LET decoded == ParseReply(gw.content)
          IN  \/ decoded = NoneValue
              \/ ~IsDict(decoded)
              \/ ~(RequiredFields \subseteq DOMAIN decoded)

\* C7: whenever the remote call fails in one of the four ways, the draft is the
\* rule engine's: the call returns what the offline analyzer returns.
C7_FailureUsesRules ==
    (Called /\ ret.gateway_called /\ GatewayFailure(call.gw)) =>
        /\ ret.rules_called
        /\ ret.value = analyze_review(TRUE, call.text, call.score, NoGateway).value

\* C8: a text of fewer than 2 characters gets the fixed default, without a
\* remote call and without the rule engine.
C8_ShortTextDefault ==
    (Called /\ call.text.type = "str" /\ Len(call.text.s) < 2) =>
        ret = [raised |-> FALSE,
               value |-> [sentiment |-> "Neutral", category |-> "Unknown",
                          urgency |-> "Baixa", suggested_action |-> "None"],
               gateway_called |-> FALSE, rules_called |-> FALSE]

\* A one-character text with a score of 5 and a remote service that would answer
C8_Witness ==
    /\ Called
    /\ ~mock_mode
    /\ call.text = PyStr("x")
    /\ call.score = PyInt("5")
    /\ call.gw = [kind |-> "reply", content |-> PyStr(PayloadNegLog)]

\* C9: a text that is null or not a string gets the result of the empty text.
C9_NonTextIsEmpty ==
    (Called /\ call.text.type # "str") =>
        /\ ~ret.raised
        /\ ret.value = [sentiment |-> "Neutral", category |-> "Unknown",
                        urgency |-> "Baixa", suggested_action |-> "None"]

\* The remote call produced nothing: result is still None after the try block
Unavailable(gw) ==
    \/ gw.kind \in GatewayErrors
    \/ gw.kind = "reply" /\ ParseReply(gw.content) = NoneValue

\* C10: with a remote service whose call resolves as unavailable, analyze_review
\* ends as it does in mock mode on the same text and score.
C10_FallbackEquivalence ==
    (Called /\ ~mock_mode /\ Unavailable(call.gw)) =>
        LET offline == analyze_review(TRUE, call.text, call.score, NoGateway)
        IN  /\ ret.raised = offline.raised
            /\ ret.value = offline.value

\* A timed-out call on a text the rule engine and the sanity layer both act on
C10_Witness ==
    /\ Called
    /\ ~mock_mode
    /\ call.gw.kind = "timeout"
    /\ call.text = PyStr("Gostei, mas veio quebrado.")
    /\ call.score = PyInt("1")
    /\ ret.value["urgency"] = "Alta"

SanityCalled == sanity # NoCall

\* The score is one the sanity layer reads as a number: present and numeric
NumericScore(score) == Truthy(score) /\ IntFloatOk(score)

\* C12: the sanity layer is idempotent: a second pass over its own output, with
\* the same score and text, returns that output with every field, the audit
\* trace included, unchanged.
C12_Idempotent ==
    SanityCalled =>
        apply_sanity_checks(sanity.returned, sanity.score, sanity.text_raw) = sanity.returned

\* A pass that corrected the draft and wrote an audit note
C12_Witness ==
    /\ SanityCalled
    /\ sanity.returned # sanity.result
    /\ Get(sanity.returned, "sentiment") # Get(sanity.result, "sentiment")
    /\ Get(sanity.returned, "reasoning") \notin {"", NoneStr}

\* C13: whatever the draft and the text, the output of the sanity layer is
\* Negative when the score is 1 or 2 and Positive when the score is 5: neither
\* the urgency matrix nor the positive lexicon override undoes the enforcement.
C13_PolarityEnforced ==
    (SanityCalled /\ NumericScore(sanity.score)) =>
        /\ IntFloat(sanity.score) <= 2 => Get(sanity.returned, "sentiment") = "Negativo"
        /\ IntFloat(sanity.score) = 5 => Get(sanity.returned, "sentiment") = "Positivo"

\* A Positive draft with score 1 on a text full of praise terms
C13_Witness ==
    /\ SanityCalled
    /\ sanity.score = PyInt("1")
    /\ sanity.text_raw = PyStr("Produto excelente, recomendo!")
    /\ Get(sanity.result, "sentiment") = "Positivo"

\* C14: every analyze_review call with a score of at most 2 returns sentiment
\* Negative and every call with score 5 returns sentiment Positive, for every
\* text and every outcome of the remote call.
C14_FinalPolarity ==
    (Called /\ NumericScore(call.score)) =>
        /\ IntFloat(call.score) <= 2 =>
              Returned /\ IsDict(ret.value) /\ Get(ret.value, "sentiment") = "Negativo"
        /\ IntFloat(call.score) = 5 =>
              Returned /\ IsDict(ret.value) /\ Get(ret.value, "sentiment") = "Positivo"

\* C15: the output of the sanity layer never has sentiment Negative together
\* with urgency Low, for every draft, text and score, an absent score included.
C15_NegativeNotLow ==
    SanityCalled =>
        ~(Get(sanity.returned, "sentiment") = "Negativo"
          /\ Get(sanity.returned, "urgency") = "Baixa")

\* C16: with an absent score the sanity layer returns the draft with every field
\* unchanged and without an audit note.
C16_AbsentScoreNoOp ==
    (SanityCalled /\ sanity.score = PyNone) => sanity.returned = sanity.result

\* No score, on a Neutral draft and a text with an urgency trigger
C16_Witness ==
    /\ SanityCalled
    /\ sanity.score = PyNone
    /\ Get(sanity.result, "sentiment") = "Neutro"
    /\ sanity.text_raw = PyStr("Gostei, mas veio quebrado.")

\* C17: the sanity layer does not edit its input: after the call the draft it
\* was given still holds the field values it had before.
C17_InputNotMutated ==
    SanityCalled => sanity.result_after = sanity.result

\* C18: an item whose classification raised aborts the batch at that item: no
\* result is delivered for it or for any later item, the results delivered are
\* those of the items before it, in order, and the generator ends on that item.
C18_AbortAtFailure ==
    /\ \A i \in Items : (status[i] = "done" /\ futures[i].raised) => Len(out) < i
    /\ \A k \in 1..Len(out) : out[k] = [item |-> k, value |-> futures[k].value]
    /\ gen \in {"aborting", "failed"} =>
          /\ Len(out) < N
          /\ status[Len(out) + 1] = "done"
          /\ futures[Len(out) + 1].raised

\* The batch failed on its second item after delivering the first, while a later
\* item had a result ready
C18_Witness ==
    /\ gen = "failed"
    /\ Len(out) = 1
    /\ \E j \in Items : j > 2 /\ status[j] = "done" /\ ~futures[j].raised

\* The remote call of item i was made and gave nothing, so that the rule engine
\* was called: with the remote outcomes of a batch, the call timed out
TimedOut(i) ==
    /\ status[i] = "done"
    /\ futures[i].gateway_called
    /\ futures[i].rules_called

\* C19: a batch in which the remote call of some item timed out still ends with
\* all N results delivered.
C19_TimeoutStillYieldsAll ==
    (gen \in {"exhausted", "failed"} /\ \E i \in Items : TimedOut(i)) => Len(out) = N

\* The trigger groups of the rule engine in the order of the claim, each with
\* the classification it stands for
GroupMatches(g, normalized) ==
    CASE g = 1 -> Contains(normalized, "nao recomendo") \/ Contains(normalized, "nao indico")
      [] g = 2 -> AnyIn(neg_triggers.urgency_high, normalized)
      [] g = 3 -> AnyIn(neg_triggers.logistics, normalized)
      [] g = 4 -> AnyIn(general_bad, normalized)
      [] g = 5 -> AnyIn(positives, normalized)
      [] g = 6 -> TRUE

GroupResult ==
    <<Classification("Negativo", "Qualidade", "Média", "Monitorar"),
      Classification("Negativo", "Outro", "Alta", "Reter Cliente Imediatamente"),
      Classification("Negativo", "Logística", "Alta", "Verificar Rastreio"),
      Classification("Negativo", "Qualidade", "Média", "Oferecer Cupom/Troca"),
      Classification("Positivo", "Qualidade", "Baixa", "Agradecer Review"),
      Classification("Neutro", "Outro", "Baixa", "Monitorar")>>

MatchingGroups(text) ==
    {g \in DOMAIN GroupResult : GroupMatches(g, StripAccents(Lower(text)))}

\* C20: the rule engine returns the classification of the earliest group, in the
\* order negative recommendation, critical urgency, logistics, general negative,
\* positive, default, that the text matches; with no score the call returns it as
\* it is. A negative recommendation with a legal trigger is {Negative, Quality,
\* Medium, Monitor}; a logistics trigger with a positive adjective is {Negative,
\* Logistics, High, Check tracking}.
C20_FirstGroupWins ==
    (Returned /\ ret.rules_called /\ call.score = PyNone) =>
        /\ ret.value = GroupResult[MinOf(MatchingGroups(call.text.s))]
        /\ call.text = PyStr("Não recomendo, vou ao Procon!") =>
              ret.value = Classification("Negativo", "Qualidade", "Média", "Monitorar")
        /\ call.text = PyStr("Entrega rápida, produto muito bom.") =>
              ret.value = Classification("Negativo", "Logística", "Alta", "Verificar Rastreio")

\* The rule engine classified a text that matches the first two groups
C20_Witness ==
    /\ Returned
    /\ ret.rules_called
    /\ call.score = PyNone
    /\ call.text = PyStr("Não recomendo, vou ao Procon!")
    /\ {1, 2} \subseteq MatchingGroups(call.text.s)

\* The draft as rule 3 finds it: after the reasoning key, rule 1 and rule 2
AfterPolarity(result, score) ==
    ScorePolarityEnforcement(
        NeutralSentimentLogic(IF "reasoning" \notin DOMAIN result
                              THEN Put(result, "reasoning", "") ELSE result,
                              IntFloat(score)),
        IntFloat(score))

\* The draft has the four fields of a classification
Complete(result) == RequiredFields \subseteq DOMAIN result

\* The praise terms occur in the text and the score is at least 4
OverrideFires(score, text_raw) ==
    /\ text_raw.type = "str"
    /\ AnyIn(triggers_positive, Lower(text_raw.s))
    /\ IntFloat(score) >= 4

\* C21: a Neutral draft with a score present comes out Negative with category
\* Quality when the score is at most 3 and Positive when it is at least 4, and so
\* never Neutral.
C21_NeutralResolved ==
    (SanityCalled /\ NumericScore(sanity.score) /\ Get(sanity.result, "sentiment") = "Neutro") =>
        /\ IntFloat(sanity.score) <= 3 =>
              /\ Get(sanity.returned, "sentiment") = "Negativo"
              /\ Get(sanity.returned, "category") = "Qualidade"
        /\ IntFloat(sanity.score) >= 4 => Get(sanity.returned, "sentiment") = "Positivo"
        /\ Get(sanity.returned, "sentiment") # "Neutro"

\* A Neutral draft of another category with the middle score
C21_Witness ==
    /\ SanityCalled
    /\ sanity.score = PyInt("3")
    /\ Get(sanity.result, "sentiment") = "Neutro"
    /\ Get(sanity.result, "category") = "Preço"

\* The texts of run_tests' cases "3. Urgency Triggers" that the model draws: a
\* delay ("Urgency (Delay)") and a sad customer ("Urgency (Emotional - Sad)")
HighUrgencyTexts ==
    {"Meu pedido está atrasado há 10 dias!", "Estou muito triste com essa compra."}

CarriesUrgencyTrigger(text) ==
    text \in HighUrgencyTexts \/ AnyIn(triggers_alta, Lower(text))

\* C22: when the sentiment after polarity enforcement is Negative and the text
\* carries a high-urgency trigger, the output urgency is High; the rule engine's
\* draft for "Gostei, mas veio quebrado." with a score of at most 2 ends Negative,
\* High, with a category other than Unknown.
C22_TriggerMeansHigh ==
    (/\ SanityCalled
     /\ NumericScore(sanity.score)
     /\ Complete(sanity.result)
     /\ sanity.text_raw.type = "str"
     /\ CarriesUrgencyTrigger(sanity.text_raw.s)
     /\ Get(AfterPolarity(sanity.result, sanity.score), "sentiment") = "Negativo") =>
        /\ Get(sanity.returned, "urgency") = "Alta"
        /\ (/\ sanity.text_raw.s = "Gostei, mas veio quebrado."
            /\ sanity.result = rule_based_analysis(sanity.text_raw.s)
            /\ IntFloat(sanity.score) <= 2) =>
              /\ Get(sanity.returned, "sentiment") = "Negativo"
              /\ Get(sanity.returned, "category") # "Unknown"

\* The words of triggers_alta that name a strong negative emotion
EmotionWords == {"triste", "decepcionado", "chateado", "indignado"}

\* C23: when the urgency matrix escalates to High, the suggested action is
\* "Acolhimento + Solução" if an emotion word of the trigger list is in the text
\* and "Resolução Imediata / Estorno" for every other trigger.
C23_ActionByTrigger ==
    (/\ SanityCalled
     /\ NumericScore(sanity.score)
     /\ Complete(sanity.result)
     /\ sanity.text_raw.type = "str"
     /\ AnyIn(triggers_alta, Lower(sanity.text_raw.s))
     /\ Get(AfterPolarity(sanity.result, sanity.score), "sentiment") = "Negativo"
     /\ ~OverrideFires(sanity.score, sanity.text_raw)) =>
        Get(sanity.returned, "suggested_action") =
            IF AnyIn(EmotionWords, Lower(sanity.text_raw.s))
            THEN "Acolhimento + Solução"
            ELSE "Resolução Imediata / Estorno"

\* C24: a praise term in the text with a score of at least 4 gives sentiment
\* Positive and the action "Agradecer e Fidelizar", category Unknown becoming
\* Outro and every other category kept, whatever the draft and whatever the
\* urgency matrix did before.
C24_PraiseOverride ==
    (SanityCalled /\ NumericScore(sanity.score)
     /\ OverrideFires(sanity.score, sanity.text_raw)) =>
        /\ Get(sanity.returned, "sentiment") = "Positivo"
        /\ Get(sanity.returned, "suggested_action") = "Agradecer e Fidelizar"
        /\ Get(sanity.returned, "category") =
              IF Get(sanity.result, "category") = "Unknown" THEN "Outro"
              ELSE Get(sanity.result, "category")

\* A Negative draft escalated to High by the urgency matrix, then overridden
C24_Witness ==
    /\ SanityCalled
    /\ sanity.score = PyInt("4")
    /\ sanity.text_raw = PyStr("Não recomendo, vou ao Procon!")
    /\ Get(sanity.result, "sentiment") = "Negativo"
    /\ Get(sanity.result, "category") = "Unknown"
    /\ Get(sanity.returned, "urgency") = "Alta"

\* C25: the audit trace grows exactly when a rule changes the draft: a changed
\* sentiment, category, urgency or suggested_action comes with a new note, and
\* an unchanged draft keeps its trace.
C25_NoteWhenRuleFires ==
    (SanityCalled /\ Complete(sanity.result) /\ sanity.text_raw.type = "str") =>
        LET changed == \E k \in RequiredFields :
                           Get(sanity.returned, k) # Get(sanity.result, k)
            before == IF "reasoning" \in DOMAIN sanity.result
                      THEN sanity.result["reasoning"] ELSE ""
            noted == Get(sanity.returned, "reasoning") \notin {NoneStr, before}
        IN  changed <=> noted

\* Replies that hold one well-formed payload inside explanatory text, each with
\* its payload
WrappedReplies ==
    {[content |-> "Claro! " \o PayloadNeutral \o " Espero ter ajudado.",
      payload |-> PayloadNeutral],
     [content |-> PayloadPos \o " (formato {json})", payload |-> PayloadPos]}

\* C26: a reply with a well-formed payload inside explanatory text is decoded to
\* that payload, also when the text after it holds further braces: the call ends
\* as it does on the bare payload and the rule engine is not used.
C26_PayloadExtracted ==
    (Called /\ ret.gateway_called /\ call.gw.kind = "reply" /\ call.text.type = "str") =>
        \A w \in WrappedReplies :
            call.gw.content = PyStr(w.content) =>
                /\ ~ret.rules_called
                /\ ret = analyze_review(FALSE, call.text, call.score,
                                        [kind |-> "reply", content |-> PyStr(w.payload)])

\* C27: analyze_batch_concurrent on N items returns N results, one per item.
C27_ConcurrentReturnsAll ==
    concurrent # NoCall =>
        /\ ~concurrent.raised
        /\ Len(concurrent.results) = Len(concurrent.reviews_data)

UrgencyRank(u) ==
    CASE u = "Baixa" -> 1
      [] u = "Média" -> 2
      [] u = "Alta" -> 3
      [] OTHER -> 0

\* C28: the sanity layer never lowers urgency: in the order Baixa < Média < Alta
\* the output urgency is at least the draft's, also when the pass ends Positive.
C28_UrgencyNeverLowered ==
    SanityCalled =>
        UrgencyRank(Get(sanity.returned, "urgency")) >=
            UrgencyRank(Get(sanity.result, "urgency"))

\* A Negative draft of urgency Baixa raised to Alta in a pass that ends Positive
C28_Witness ==
    /\ SanityCalled
    /\ Get(sanity.result, "sentiment") = "Negativo"
    /\ Get(sanity.result, "urgency") = "Baixa"
    /\ Get(sanity.returned, "urgency") = "Alta"
    /\ Get(sanity.returned, "sentiment") = "Positivo"

\* C29: without a remote service analyze_review never returns sentiment Negative
\* with urgency Low, for every text and every score, an absent one included.
C29_OfflineNegativeNotLow ==
    (Returned /\ mock_mode) =>
        ~(Get(ret.value, "sentiment") = "Negativo" /\ Get(ret.value, "urgency") = "Baixa")

\* Offline, a text the rule engine finds neutral (urgency Baixa) with score 1
C29_Witness ==
    /\ Returned
    /\ mock_mode
    /\ call.text = PyStr("ok")
    /\ call.score = PyInt("1")
    /\ rule_based_analysis(call.text.s)["urgency"] = "Baixa"
    /\ Get(ret.value, "sentiment") = "Negativo"

\* C30: the category changes in two cases only, a Neutral draft with a score of
\* at most 3 (Quality) and the praise override on category Unknown (Other);
\* polarity enforcement keeps category, urgency and suggested_action, and the
\* urgency matrix keeps category.
C30_CategoryFrame ==
    (SanityCalled /\ NumericScore(sanity.score)) =>
        LET score_int == IntFloat(sanity.score)
            r0 == IF "reasoning" \notin DOMAIN sanity.result
                  THEN Put(sanity.result, "reasoning", "") ELSE sanity.result
            r1 == NeutralSentimentLogic(r0, score_int)
            r2 == ScorePolarityEnforcement(r1, score_int)
            r3 == UrgencyUpgrade(r2)
        IN  /\ Get(sanity.returned, "category") =
                  IF Get(sanity.result, "sentiment") = "Neutro" /\ score_int <= 3
                  THEN "Qualidade"
                  ELSE IF OverrideFires(sanity.score, sanity.text_raw)
                          /\ Get(sanity.result, "category") = "Unknown"
                  THEN "Outro"
                  ELSE Get(sanity.result, "category")
            /\ \A k \in {"category", "urgency", "suggested_action"} : Get(r2, k) = Get(r1, k)
            /\ Get(r3, "category") = Get(r2, "category")
            /\ sanity.text_raw.type = "str" =>
                  Get(UrgencyTriggers(r3, sanity.text_raw.s), "category") = Get(r2, "category")

\* Polarity enforcement and the urgency matrix both acted on a draft whose
\* category is not Quality
C30_Witness ==
    /\ SanityCalled
    /\ sanity.score = PyInt("1")
    /\ Get(sanity.result, "sentiment") = "Positivo"
    /\ Get(sanity.result, "category") = "Outro"
    /\ sanity.text_raw = PyStr("Gostei, mas veio quebrado.")
    /\ Get(sanity.returned, "urgency") = "Alta"

====
